---- MODULE Spec2Model ----
(***************************************************************************)
(* Model of seybio_task_manager (src/src/lib.rs): the Task value type with *)
(* complete/uncomplete, and TaskCollection, the Vec-backed implementation  *)
(* of the Collection trait (new/add_task/remove_task).                     *)
(***************************************************************************)
EXTENDS Integers, Sequences, FiniteSets, TLC

(* ---- bounds ---- *)
MaxTime == 1
MaxLen == 3
MaxOps == 4

(* Readings of SystemTime::now(). *)
Times == 0..MaxTime
(* Titles passed to Task::new; the empty string is a legal title. *)
Titles == {"", "task 1"}

(* ---- Option<SystemTime> ---- *)
None == <<>>
Some(t) == <<t>>
OptionTimes == {None} \cup {Some(t) : t \in Times}

(* ---- struct Task ---- *)
(* The values Task::new, complete and uncomplete produce, and one built as *)
(* a struct literal with a description (the fields are public).             *)
Literal == [title |-> "task 1", description |-> "d", completed_at |-> None]
Task ==
    [title : Titles, description : {""}, completed_at : OptionTimes] \cup {Literal}

(* #[derive(PartialEq)]: field-wise equality. *)
TaskEq(a, b) ==
    /\ a.title = b.title
    /\ a.description = b.description
    /\ a.completed_at = b.completed_at

(* Faulty variant: the description is initialised from the title. *)
Task_new_desc_from_title(title) ==
    [title |-> title, description |-> title, completed_at |-> None]

Task_new(title) ==
    [title |-> title, description |-> "", completed_at |-> None]

(* Faulty variant: every call takes a fresh clock reading. *)
Task_complete_overwrite(self, now) ==
    [self EXCEPT !.completed_at = Some(now)]

(* Faulty variant: the two match arms are swapped. *)
Task_complete_swapped(self, now) ==
    IF self.completed_at = None
      THEN self
      ELSE [self EXCEPT !.completed_at = Some(now)]

Task_complete(self, now) ==
    IF self.completed_at = None
      THEN [self EXCEPT !.completed_at = Some(now)]
      ELSE [self EXCEPT !.completed_at = self.completed_at]

(* Faulty variant: uncomplete leaves the timestamp alone. *)
Task_uncomplete_noop(self) ==
    self

Task_uncomplete(self) ==
    [self EXCEPT !.completed_at = None]

(* ---- TaskCollection ---- *)
TaskCollection_new == <<>>

(* Faulty variant: a task equal to a stored one is not added again. *)
add_task_unique(v, task) ==
    IF \E i \in 1..Len(v) : TaskEq(v[i], task) THEN v ELSE Append(v, task)

add_task(v, task) ==
    Append(v, task)

(* self.tasks.retain(|t| *t != task): keeps, in order, the elements that   *)
(* differ from task.                                                        *)
RECURSIVE retain_ne(_, _)
retain_ne(v, task) ==
    IF v = <<>> THEN <<>>
    ELSE IF ~TaskEq(Head(v), task) THEN <<Head(v)>> \o retain_ne(Tail(v), task)
    ELSE retain_ne(Tail(v), task)

(* Index of the first element equal to task, 0 when there is none. *)
position(v, task) ==
    IF \E i \in 1..Len(v) : TaskEq(v[i], task)
      THEN CHOOSE i \in 1..Len(v) :
             /\ TaskEq(v[i], task)
             /\ \A j \in 1..(i - 1) : ~TaskEq(v[j], task)
      ELSE 0

(* The Collection trait's documented example implementation. *)
MyCollection_remove_task(v, task) ==
    LET index == position(v, task) IN
    IF index = 0 THEN v
    ELSE SubSeq(v, 1, index - 1) \o SubSeq(v, index + 1, Len(v))

(* Faulty variant: only the first equal entry is removed. *)
remove_task_first(v, task) ==
    LET index == position(v, task) IN
    IF index = 0 THEN v
    ELSE SubSeq(v, 1, index - 1) \o SubSeq(v, index + 1, Len(v))

(* Faulty variant: the retain predicate is inverted. *)
remove_task_inverted(v, task) ==
    SelectSeq(v, LAMBDA t : TaskEq(t, task))

(* Faulty variant: equality looks at the title only. *)
remove_task_by_title(v, task) ==
    SelectSeq(v, LAMBDA t : t.title # task.title)

remove_task(v, task) ==
    retain_ne(v, task)

(* ---- state ---- *)
VARIABLES
    clock,   \* the value SystemTime::now() returns
    task,    \* the caller's Task
    tasks,   \* TaskCollection.tasks
    call,    \* the last call made, with its arguments and the state it found
    born,    \* the caller's Task as Task::new returned it
    hist     \* the add_task / remove_task calls made on the collection, in order

vars == <<clock, task, tasks, call, born, hist>>

Init ==
    /\ clock \in Times
    /\ \E title \in Titles :
         /\ task = Task_new(title)
         /\ born = Task_new(title)
         /\ call = [op |-> "new", title |-> title]
    /\ tasks = TaskCollection_new
    /\ hist = <<>>

(* The system clock moves, forward or backward. *)
Tick ==
    /\ \E t \in Times : t # clock /\ clock' = t
    /\ UNCHANGED <<task, tasks, call, born, hist>>

New(title) ==
    /\ task' = Task_new(title)
    /\ born' = task'
    /\ call' = [op |-> "new", title |-> title]
    /\ UNCHANGED <<clock, tasks, hist>>

Complete ==
    /\ task' = Task_complete(task, clock)
    /\ call' = [op |-> "complete", self |-> task, now |-> clock]
    /\ UNCHANGED <<clock, tasks, born, hist>>

Uncomplete ==
    /\ task' = Task_uncomplete(task)
    /\ call' = [op |-> "uncomplete", self |-> task]
    /\ UNCHANGED <<clock, tasks, born, hist>>

AddTask(t) ==
    /\ tasks' = add_task(tasks, t)
    /\ call' = [op |-> "add_task", tasks |-> tasks, task |-> t]
    /\ UNCHANGED <<clock, task, born>>

RemoveTask(t) ==
    /\ tasks' = remove_task(tasks, t)
    /\ call' = [op |-> "remove_task", tasks |-> tasks, task |-> t]
    /\ UNCHANGED <<clock, task, born>>

(* A caller that builds a task, completes and uncompletes it, and adds or   *)
(* removes clones of it.                                                    *)
Next ==
    \/ Tick
    \/ \E title \in Titles : New(title)
    \/ Complete
    \/ Uncomplete
    \/ Len(tasks) < MaxLen /\ AddTask(task) /\ UNCHANGED hist
    \/ RemoveTask(task) /\ UNCHANGED hist

Spec == Init /\ [][Next]_vars

(* A caller that only works on the collection, with arbitrary task values,  *)
(* every call being logged.                                                 *)
InitColl ==
    /\ Init
    /\ clock = 0
    /\ task = Task_new("")

NextColl ==
    \/ \E t \in Task :
         /\ Len(hist) < MaxOps
         /\ AddTask(t)
         /\ hist' = Append(hist, [op |-> "add_task", task |-> t])
    \/ \E t \in Task :
         /\ Len(hist) < MaxOps
         /\ RemoveTask(t)
         /\ hist' = Append(hist, [op |-> "remove_task", task |-> t])

SpecColl == InitColl /\ [][NextColl]_vars

(* ---- helpers of the properties ---- *)

(* a is b with some entries left out, the others in b's order. *)
RECURSIVE IsSubseq(_, _)
IsSubseq(a, b) ==
    IF a = <<>> THEN TRUE
    ELSE IF b = <<>> THEN FALSE
    ELSE IF Head(a) = Head(b) THEN IsSubseq(Tail(a), Tail(b))
    ELSE IsSubseq(a, Tail(b))

(* How many entries of s are equal to v. *)
Count(s, v) == Cardinality({i \in 1..Len(s) : TaskEq(s[i], v)})

Has(s, v) == \E i \in 1..Len(s) : TaskEq(s[i], v)

(* The add_task calls of h that no later remove_task of an equal value      *)
(* follows, from call number i on, in call order.                           *)
RECURSIVE AddedNotRemoved(_, _)
AddedNotRemoved(h, i) ==
    IF i > Len(h) THEN <<>>
    ELSE IF /\ h[i].op = "add_task"
            /\ \A j \in (i + 1)..Len(h) :
                 ~(h[j].op = "remove_task" /\ TaskEq(h[j].task, h[i].task))
      THEN <<h[i].task>> \o AddedNotRemoved(h, i + 1)
      ELSE AddedNotRemoved(h, i + 1)

(* ---- C1 ---- *)
(* C1: complete() on a task whose completed_at is Some(t) leaves it Some(t), *)
(* whatever the clock reads at that call.                                    *)
C1_CompleteIdempotent ==
    (call.op = "complete" /\ call.self.completed_at # None)
        => task.completed_at = call.self.completed_at

(* complete() was called on a completed task while the clock read another   *)
(* time than the stored one.                                                *)
C1_Witness ==
    /\ call.op = "complete"
    /\ call.self.completed_at # None
    /\ call.self.completed_at # Some(call.now)
    /\ task.completed_at = call.self.completed_at

C4_AddAppends ==
    call.op = "add_task" =>
        /\ Len(tasks) = Len(call.tasks) + 1
        /\ tasks[Len(tasks)] = call.task
        /\ \A i \in 1..Len(call.tasks) : tasks[i] = call.tasks[i]

(* add_task(t) was called on a collection holding a task equal to t and     *)
(* another one, and now holds t twice.                                      *)
C4_Witness ==
    /\ call.op = "add_task"
    /\ Has(call.tasks, call.task)
    /\ Count(tasks, call.task) = 2
    /\ Len(tasks) >= 3

(* ---- C5 ---- *)
(* C5: from the empty collection, add_task(A), add_task(B), then            *)
(* remove_task of a value equal to A leave exactly <<B>>.                   *)
C5_AddAddRemove ==
    (/\ Len(hist) = 3
     /\ hist[1].op = "add_task"
     /\ hist[2].op = "add_task"
     /\ hist[3].op = "remove_task"
     /\ TaskEq(hist[3].task, hist[1].task))
        => tasks = <<hist[2].task>>

(* ---- C6 ---- *)
(* C6: remove_task(v) on a collection with no entry equal to v leaves the   *)
(* sequence as it was.                                                      *)
C6_RemoveAbsentNoop ==
    (call.op = "remove_task" /\ ~Has(call.tasks, call.task))
        => tasks = call.tasks

(* remove_task(v) was called on a non-empty collection holding nothing      *)
(* equal to v.                                                              *)
C6_Witness ==
    /\ call.op = "remove_task"
    /\ Len(call.tasks) >= 2
    /\ ~Has(call.tasks, call.task)
    /\ tasks = call.tasks

(* ---- C7 ---- *)
(* C7: after complete() completed_at is not None, and when it was None      *)
(* before, it is the clock reading of that call.                            *)
C7_CompleteSets ==
    call.op = "complete" =>
        /\ task.completed_at # None
        /\ call.self.completed_at = None => task.completed_at = Some(call.now)

(* complete() was called on a task that was not completed, at a time other  *)
(* than the first clock value.                                              *)
C7_Witness ==
    /\ call.op = "complete"
    /\ call.self.completed_at = None
    /\ call.now # 0
    /\ task.completed_at = Some(call.now)

(* ---- C8 ---- *)
(* C8: after uncomplete() completed_at is None, whatever it was before.     *)
C8_UncompleteResets ==
    call.op = "uncomplete" => task.completed_at = None

(* uncomplete() was called on a completed task. *)
C8_Witness ==
    /\ call.op = "uncomplete"
    /\ call.self.completed_at # None
    /\ task.completed_at = None

(* ---- C9 ---- *)
(* C9: when the collection holds an entry equal to v, remove_task(v) takes  *)
(* out the first such entry and no other, as the trait's documented         *)
(* implementation does: the length goes down by exactly 1.                  *)
C9_RemoveOne ==
    (call.op = "remove_task" /\ Has(call.tasks, call.task))
        => /\ Len(tasks) = Len(call.tasks) - 1
           /\ tasks = MyCollection_remove_task(call.tasks, call.task)

(* ---- C10 ---- *)
(* C10: Task::new(title) gives that title, the empty description and no     *)
(* completion time; complete and uncomplete keep title and description;     *)
(* add_task and remove_task change no entry they keep.                      *)
C10_TitleDescriptionFixed ==
    /\ call.op = "new" =>
         task = [title |-> call.title, description |-> "", completed_at |-> None]
    /\ task.title = born.title
    /\ task.description = born.description
    /\ call.op \in {"complete", "uncomplete"} =>
         /\ task.title = call.self.title
         /\ task.description = call.self.description
    /\ call.op = "add_task" =>
         \A i \in 1..Len(call.tasks) : tasks[i] = call.tasks[i]
    /\ call.op = "remove_task" => IsSubseq(tasks, call.tasks)

(* A task with a non-empty title was completed, clones of it in two states  *)
(* were added, and a removal kept one of them.                              *)
C10_Witness ==
    /\ call.op = "remove_task"
    /\ task.title # ""
    /\ task.completed_at # None
    /\ Len(call.tasks) = 2
    /\ Len(tasks) = 1
    /\ tasks[1].title = task.title

====
